---- MODULE Spec2Model ----
(***************************************************************************)
(* Charge-control engine of Solar_battery_charge_forecast.                 *)
(*                                                                         *)
(* The program is a script that an external scheduler starts periodically. *)
(* Every run loads the persisted charging state, decides whether the       *)
(* battery should be force-charged, drives the Fronius inverter over       *)
(* Modbus registers and saves the charging state.  The model follows one   *)
(* run (Spec) or two overlapping runs (SpecConc) step by step; every       *)
(* Modbus exchange and every access to the state file is one step.         *)
(*                                                                         *)
(* Times are minutes counted from 00:00 of the day of the run, energies    *)
(* are Wh, powers are W.                                                   *)
(***************************************************************************)
EXTENDS Integers, Sequences, FiniteSets, TLC

---------------------------------------------------------------------------
(* Bounds of the model *)

\* entity ids of the runs that may be in flight together
Procs == {1, 2}
\* the runs of the sequential specification (the scheduler starts one at a time)
SeqProcs == {1}

\* wall-clock times at which a run may start: 05:45, 06:00, 12:00, 23:30
Times == {345, 360, 720, 1410}

\* total_deficit_kwh of a run in Wh
Deficits == {-1000, 0, 50, 3000, 40000}

\* the same for the runs that overlap: 23:30, no deficit or 3 kWh
ConcTimes == {1410}
ConcDeficits == {0, 3000}
\* number of runs followed when runs overlap
MaxConcRuns == 3

\* --cheap_power_window_start / --cheap_power_window_end as <<hour, minute>>
\* pairs; <<25, 0>> and <<6, 60>> are strings that strptime("%H:%M") rejects
Windows == { << <<23, 0>>, <<6, 0>> >>,
             << <<1, 0>>,  <<5, 0>> >>,
             << <<25, 0>>, <<6, 0>> >>,
             << <<23, 0>>, <<6, 60>> >> }

\* --max_battery_charge_rate values
MaxRates == {5000, 3005}

\* number of ForecastInput rows the history of a run yields
HistoryRows == {0, 1, 2}

\* --battery_charge_efficiency values, in percent
Efficiencies == {0, 100}

\* what a run may be given: rows of history, efficiency, and whether
\* get_solar_forecast_advanced returned {"error": ...}
RunEnvs == [rows : HistoryRows, efficiency : Efficiencies, solar_error : BOOLEAN]
ConcEnvs == {[rows |-> 2, efficiency |-> 100, solar_error |-> FALSE]}
NoEnv == [rows |-> 0, efficiency |-> 0, solar_error |-> FALSE]
NoFn == [op |-> "none"]

\* inputs of calculate_charge_rate studied on its own: deficits in Wh, windows,
\* and times from 00:00 to 23:59 that include both window ends
RateDeficits == {-1000, 0, 50, 3000}
RateWindows == Windows
RateTimes == {0, 60, 285, 300, 345, 360, 720, 1380, 1410, 1439}

\* inputs of the daily aggregation studied on its own: readings of the three
\* sensors at 20:00 and 23:00 of one day and 01:00 of the next
\* (seconds from 00:00 of the first day), power in W, SOC in percent
MaxReadings == 4
ReadingTimes == {72000, 82800, 90000}
PowerValues == {100, 200}
SocValues == {20, 80}
\* readings out of the ordinary: a unit that is no power, energy or SOC unit,
\* no unit at all, and a percentage reported by the charge rate sensor
OtherUnit == "V"
MissingUnit == "missing"

\* inputs of the solar forecast studied on its own: the age of the cache entry
\* in minutes, the total of a forecast in Wh, the time to live in minutes
CacheAges == {0, 119, 120, 500}
SolarTotals == {2000, 8000}
CacheDurations == {120}

\* inputs of the inverter functions studied call by call: the power asked of
\* force_charge_inverter in W and the mode the inverter is in
CallPowers == {0, 9, 10, 545, 6000}

\* control modes and charge rates the inverter may report to
\* simple_battery_test.py; -1 stands for a value that could not be read
TestModes == {-1, 0, 1, 2, 3, 100}
TestRates == {-1, 0, 10000}

\* values of --retry_attempts
RetryAttempts == {0, 1, 2, 3}

\* by how many W two rates must differ to differ "materially"
MaterialDelta == 100

---------------------------------------------------------------------------
(* Program constants *)

REG_MODE == 40348
REG_POWER == 40355
REG_SOC == 40350
REG_DISCHARGE == 40356
Registers == {REG_MODE, REG_POWER, REG_SOC, REG_DISCHARGE}

MODE_FORCE == 2
MODE_AUTO == 0
MIN_CHARGE_SENTINEL == 55536
POWER_BASE == 65536
LOW_POWER_THRESHOLD == 10
SOC_CEILING == 9900
POWER_NEUTRAL == 10000
SOC_FLOOR_DEFAULT == 500
DISCHARGE_DEFAULT == 10000
DAYS_OF_HA_POWER_HISTORY == 30

VARIABLES
    stateFile,                \* content of STATE_FILE (/data/charging_state.json)
    regs,                     \* holding registers of the inverter
    CHEAP_POWER_WINDOW,       \* configuration, fixed over all runs
    MAX_BATTERY_CHARGE_RATE,  \* configuration, fixed over all runs
    pc,                       \* position of each run in the script
    current_time,             \* datetime.now() of the run
    total_deficit_wh,         \* total_deficit_kwh * 1000
    currently_charging,       \* the script's variable currently_charging
    should_charge,            \* the script's variable should_charge
    charge_rate,              \* the script's variable charge_rate
    charging_power,           \* argument of force_charge_inverter after the limit
    ret,                      \* return value of the transition function
    runlog,                   \* what the run has done so far (history)
    lastSave,                 \* the last call of save_charging_state (history)
    lastForcedPower,          \* the power last written by a forced charge (history)
    runs,                     \* number of overlapping runs started so far
    env,                      \* what the run was given: history rows, efficiency, solar forecast
    fn                        \* inputs and results of a function studied on its own

vars == << stateFile, regs, CHEAP_POWER_WINDOW, MAX_BATTERY_CHARGE_RATE, pc,
           current_time, total_deficit_wh, currently_charging, should_charge,
           charge_rate, charging_power, ret, runlog, lastSave,
           lastForcedPower, runs, env, fn >>

config == << CHEAP_POWER_WINDOW, MAX_BATTERY_CHARGE_RATE >>
locals == << current_time, total_deficit_wh, currently_charging, should_charge,
             charge_rate, charging_power, ret >>

---------------------------------------------------------------------------
(* The state file *)

\* json text of the state file, by what the parser makes of it
FileAbsent == [kind |-> "absent", cc |-> "none"]
FileGarbage == [kind |-> "garbage", cc |-> "none"]
FileNonRecord == [kind |-> "nonrecord", cc |-> "none"]
FileRecord(tok) == [kind |-> "record", cc |-> tok]

\* a dump that stores the negated flag
JsonDumpStateNegated(charging) == FileRecord(IF charging THEN "false" ELSE "true")

\* json.dump of {'currently_charging': charging, 'timestamp': ...}
JsonDumpState(charging) == FileRecord(IF charging THEN "true" ELSE "false")

\* state.get('currently_charging', False) on the parsed json object
JsonGetCharging(file) ==
    IF file.cc = "true" THEN TRUE
    ELSE IF file.cc = "false" THEN FALSE
    ELSE FALSE

\* load_charging_state: "crash" is an exception that no except clause catches
load_charging_state(file, ioerror) ==
    IF file.kind = "absent" THEN [crash |-> FALSE, value |-> FALSE]
    ELSE IF ioerror THEN [crash |-> FALSE, value |-> FALSE]
    ELSE IF file.kind = "garbage" THEN [crash |-> FALSE, value |-> FALSE]
    ELSE IF file.kind = "nonrecord" THEN [crash |-> TRUE, value |-> FALSE]
    ELSE [crash |-> FALSE, value |-> JsonGetCharging(file)]

\* save_charging_state: open(STATE_FILE, 'w') truncates, json.dump writes;
\* an IOError of either is logged and swallowed
SaveOutcomes == {"ok", "open_fail", "dump_fail"}
save_charging_state(file, charging, outcome) ==
    IF outcome = "open_fail" THEN file
    ELSE IF outcome = "dump_fail" THEN FileGarbage
    ELSE JsonDumpState(charging)

---------------------------------------------------------------------------
(* Charge rate *)

Max(a, b) == IF a >= b THEN a ELSE b

\* Python round(n / d) for d > 0: to the nearest integer, ties to even
RoundHalfEven(n, d) ==
    LET q == n \div d
        r == n % d
    IN  IF 2 * r < d THEN q
        ELSE IF 2 * r > d THEN q + 1
        ELSE IF q % 2 = 0 THEN q ELSE q + 1

\* datetime.strptime(f"{today} {hhmm}", "%Y-%m-%d %H:%M")
ParseOk(hhmm) == hhmm[1] \in 0..23 /\ hhmm[2] \in 0..59
ParseHHMM(hhmm) == hhmm[1] * 60 + hhmm[2]

\* a window whose end is never moved to the next day
RolledWindowSameDay(start0, end0, now) ==
    LET start2 == IF now > end0 THEN start0 + 1440 ELSE start0
        end2 == IF now > end0 THEN end0 + 1440 ELSE end0
    IN  << start2, end2 >>

\* start_time and end_time after "Adjust for next day if end time is earlier
\* than start time" and "Adjust start time to next day if current time is
\* past end time"
RolledWindow(start0, end0, now) ==
    LET end1 == IF end0 < start0 THEN end0 + 1440 ELSE end0
        start2 == IF now > end1 THEN start0 + 1440 ELSE start0
        end2 == IF now > end1 THEN end1 + 1440 ELSE end1
    IN  << start2, end2 >>

\* charging_end - start_time in minutes, the interval the rate is spread over
UsableMinutes(start0, end0, now) ==
    LET w == RolledWindow(start0, end0, now)
        start3 == IF now < w[1] THEN w[1] ELSE now
    IN  w[2] - start3

\* a margin that is never taken off
RemainingMinutesNoMargin(raw) == raw

\* remaining_hours: the 1 hour safety margin, dropped when less than 1 hour
\* would be left
RemainingMinutes(raw) == IF raw - 60 < 60 THEN raw ELSE raw - 60

\* a rate computed from window times that were never checked
calculate_charge_rate_unchecked(deficit_wh, window_start, window_end, now) ==
    LET raw == UsableMinutes(ParseHHMM(window_start), ParseHHMM(window_end), now)
        remaining == RemainingMinutes(raw)
    IN  IF remaining <= 0 THEN 0
        ELSE Max(RoundHalfEven(deficit_wh * 60, remaining), 0)

\* calculate_charge_rate: 0 when a window time does not parse
calculate_charge_rate(deficit_wh, window_start, window_end, now) ==
    IF ~(ParseOk(window_start) /\ ParseOk(window_end)) THEN 0
    ELSE
    LET raw == UsableMinutes(ParseHHMM(window_start), ParseHHMM(window_end), now)
        remaining == RemainingMinutes(raw)
    IN  IF remaining <= 0 THEN 0
        ELSE Max(RoundHalfEven(deficit_wh * 60, remaining), 0)

\* the module-level start_time / end_time of the history query, which the
\* decision logic still sees when the window strings do not parse
HistoryEnd(now) == now - 1
HistoryStart(now) == HistoryEnd(now) - DAYS_OF_HA_POWER_HISTORY * 1440

\* a decision that does not look at the window
DecideShouldChargeAnyTime(deficit_wh, window, now, rate) ==
    deficit_wh > 0 /\ rate > 0

\* should_charge of the decision logic
DecideShouldCharge(deficit_wh, window, now, rate) ==
    IF deficit_wh > 0 THEN
        LET ok == ParseOk(window[1]) /\ ParseOk(window[2])
            start0 == IF ParseOk(window[1]) THEN ParseHHMM(window[1])
                      ELSE HistoryStart(now)
            end0 == IF ok THEN ParseHHMM(window[2]) ELSE HistoryEnd(now)
            end1 == IF end0 < start0 THEN end0 + 1440 ELSE end0
            start2 == IF now > end1 THEN start0 + 1440 ELSE start0
            end2 == IF now > end1 THEN end1 + 1440 ELSE end1
        IN  start2 <= now /\ now <= end2 /\ rate > 0
    ELSE FALSE

---------------------------------------------------------------------------
(* Register encodings *)

\* a force_charge_inverter without the limit
LimitPowerMissing(power, max_rate) == power

\* the maximum charge rate limit of force_charge_inverter
LimitPower(power, max_rate) == IF power > max_rate THEN max_rate ELSE power

\* an encoding without the minimum for low powers
EncodePowerNoMinimum(power) == POWER_BASE + (-(power \div 10))

\* value_40355 of force_charge_inverter
EncodePower(power) ==
    IF power < LOW_POWER_THRESHOLD THEN MIN_CHARGE_SENTINEL
    ELSE POWER_BASE + (-(power \div 10))

\* the writes of force_charge_inverter, in order
ForceWrite(i, power) ==
    IF i = 1 THEN << REG_MODE, MODE_FORCE >>
    ELSE IF i = 2 THEN << REG_POWER, EncodePower(power) >>
    ELSE << REG_SOC, SOC_CEILING >>
ForceLen == 3

\* a reset that leaves the SOC ceiling of the forced charge in place
ResetWriteKeepsCeiling(i) ==
    IF i = 1 THEN << REG_MODE, MODE_AUTO >>
    ELSE IF i = 2 THEN << REG_POWER, POWER_NEUTRAL >>
    ELSE IF i = 3 THEN << REG_SOC, SOC_CEILING >>
    ELSE << REG_DISCHARGE, DISCHARGE_DEFAULT >>

\* the writes of reset_inverter_settings, in order
ResetWrite(i) ==
    IF i = 1 THEN << REG_MODE, MODE_AUTO >>
    ELSE IF i = 2 THEN << REG_POWER, POWER_NEUTRAL >>
    ELSE IF i = 3 THEN << REG_SOC, SOC_FLOOR_DEFAULT >>
    ELSE << REG_DISCHARGE, DISCHARGE_DEFAULT >>
ResetLen == 4

---------------------------------------------------------------------------
(* Runs *)

\* discharge limits the inverter may hold before the program first resets it
InitDischarge == {DISCHARGE_DEFAULT, 8000}

\* state files a fresh deployment may find: none, one that does not parse,
\* json that is not an object, an object without the key
InitFiles == {FileAbsent, FileGarbage, FileNonRecord, FileRecord("missing")}

\* how the history names a value handed to save_charging_state
ArgName(charging) == IF charging THEN "true" ELSE "false"

NewLog(file) ==
    [fileAtStart |-> file, loads |-> 0, saves |-> 0, savedArg |-> "none",
     saveOk |-> FALSE, writes |-> << >>, transition |-> "none",
     crashAt |-> "none", loaded |-> FALSE, loadIoError |-> FALSE,
     regsAtStart |-> << >>, divided |-> FALSE, mqtt |-> "none"]

InitRun ==
    /\ stateFile \in InitFiles
    /\ \E d \in InitDischarge :
         regs = [r \in Registers |->
                   IF r = REG_MODE THEN MODE_AUTO
                   ELSE IF r = REG_POWER THEN POWER_NEUTRAL
                   ELSE IF r = REG_SOC THEN SOC_FLOOR_DEFAULT
                   ELSE d]
    /\ CHEAP_POWER_WINDOW \in Windows
    /\ MAX_BATTERY_CHARGE_RATE \in MaxRates
    /\ pc = [p \in Procs |-> "idle"]
    /\ current_time = [p \in Procs |-> 0]
    /\ total_deficit_wh = [p \in Procs |-> 0]
    /\ currently_charging = [p \in Procs |-> FALSE]
    /\ should_charge = [p \in Procs |-> FALSE]
    /\ charge_rate = [p \in Procs |-> 0]
    /\ charging_power = [p \in Procs |-> 0]
    /\ ret = [p \in Procs |-> FALSE]
    /\ runlog = [p \in Procs |-> NewLog(FileAbsent)]
    /\ lastSave = [arg |-> "none", ok |-> FALSE, after |-> "none"]
    /\ lastForcedPower = -1
    /\ runs = 0
    /\ env = [p \in Procs |-> NoEnv]

Init == InitRun /\ fn = NoFn

\* df_forecast[["DayOfWeek"]] raises KeyError on a frame without rows;
\* LinearRegression.fit accepts any frame with at least one row
ForecastFails(rows) == rows < 1

\* whether the deficit calculation looks at the efficiency at all: the check
\* sits in the else-branch of 'if "error" in solar_forecast_data'
EfficiencyChecked(solar_error) == ~solar_error

\* total_deficit_kwh /= BATTERY_CHARGE_EFFICIENCY, the efficiency in percent
ApplyEfficiency(deficit_wh, efficiency) == (deficit_wh * 100) \div efficiency

\* a deficit calculation that does not look for the error of the forecast
DeficitCalcIgnoresError(d, e) ==
    IF ForecastFails(e.rows)
    THEN [pc |-> "crashed", crashAt |-> "forecast", deficit |-> 0, divided |-> FALSE]
    ELSE IF e.efficiency <= 0
    THEN [pc |-> "crashed", crashAt |-> "efficiency", deficit |-> 0, divided |-> FALSE]
    ELSE [pc |-> "load", crashAt |-> "none",
          deficit |-> ApplyEfficiency(d, e.efficiency), divided |-> TRUE]

\* the script from the forecast to the end of the deficit calculation, for a
\* deficit d before the efficiency is applied (line 658): where it goes on,
\* total_deficit_kwh, and whether the division by the efficiency was made
DeficitCalc(d, e) ==
    IF ForecastFails(e.rows)
    THEN [pc |-> "crashed", crashAt |-> "forecast", deficit |-> 0, divided |-> FALSE]
    ELSE IF ~EfficiencyChecked(e.solar_error)
    THEN [pc |-> "load", crashAt |-> "none", deficit |-> 0, divided |-> FALSE]
    ELSE IF e.efficiency <= 0
    THEN [pc |-> "crashed", crashAt |-> "efficiency", deficit |-> 0, divided |-> FALSE]
    ELSE [pc |-> "load", crashAt |-> "none",
          deficit |-> ApplyEfficiency(d, e.efficiency), divided |-> TRUE]

\* the scheduler starts the script, which runs up to the end of the deficit
\* calculation: the time of the run, the deficit, and what the fetches return
StartRunWith(p, times, deficits, envs) ==
    /\ pc[p] = "idle"
    /\ \E now \in times, d \in deficits, e \in envs :
         LET r == DeficitCalc(d, e)
         IN  /\ current_time' = [current_time EXCEPT ![p] =
                                   IF r.pc = "load" THEN now ELSE 0]
             /\ total_deficit_wh' = [total_deficit_wh EXCEPT ![p] = r.deficit]
             /\ env' = [env EXCEPT ![p] = e]
             /\ runlog' = [runlog EXCEPT ![p] =
                             [NewLog(stateFile) EXCEPT !.regsAtStart = regs,
                                                       !.crashAt = r.crashAt,
                                                       !.divided = r.divided]]
             /\ pc' = [pc EXCEPT ![p] = r.pc]
    /\ UNCHANGED << stateFile, regs, config, currently_charging, should_charge,
                    charge_rate, charging_power, ret, lastSave, lastForcedPower,
                    fn >>

StartRun(p) == StartRunWith(p, Times, Deficits, RunEnvs) /\ UNCHANGED runs

\* currently_charging = load_charging_state()
LoadState(p) ==
    /\ UNCHANGED << runs, env, fn >>
    /\ pc[p] = "load"
    /\ \E ioerror \in BOOLEAN :
         LET r == load_charging_state(stateFile, ioerror)
         IN  /\ runlog' = [runlog EXCEPT ![p].loads = @ + 1,
                                         ![p].loaded = r.value,
                                         ![p].loadIoError = (ioerror /\ stateFile.kind # "absent"),
                                         ![p].crashAt = IF r.crash THEN "load" ELSE @]
             /\ currently_charging' = [currently_charging EXCEPT ![p] = r.value]
             /\ pc' = [pc EXCEPT ![p] = IF r.crash THEN "crashed" ELSE "decide"]
    /\ UNCHANGED << stateFile, regs, config, current_time, total_deficit_wh,
                    should_charge, charge_rate, charging_power, ret, lastSave,
                    lastForcedPower >>

\* a branch selection that re-applies the forced charge on every run
BranchAlwaysWrites(should, charging) ==
    IF should THEN "fc_connect"
    ELSE IF charging THEN "rs_connect"
    ELSE "publish"

\* which branch of "Only write to modbus if state needs to change" is taken
Branch(should, charging) ==
    IF should /\ ~charging THEN "fc_connect"
    ELSE IF ~should /\ charging THEN "rs_connect"
    ELSE "publish"

\* the decision logic up to the branch
Decide(p) ==
    /\ UNCHANGED << runs, env, fn >>
    /\ pc[p] = "decide"
    /\ LET rate == IF total_deficit_wh[p] > 0
                   THEN calculate_charge_rate(total_deficit_wh[p],
                            CHEAP_POWER_WINDOW[1], CHEAP_POWER_WINDOW[2],
                            current_time[p])
                   ELSE 0
           should == DecideShouldCharge(total_deficit_wh[p], CHEAP_POWER_WINDOW,
                                        current_time[p], rate)
       IN  /\ charge_rate' = [charge_rate EXCEPT ![p] = rate]
           /\ should_charge' = [should_charge EXCEPT ![p] = should]
           /\ charging_power' = [charging_power EXCEPT ![p] =
                                   LimitPower(rate, MAX_BATTERY_CHARGE_RATE)]
           /\ pc' = [pc EXCEPT ![p] = Branch(should, currently_charging[p])]
    /\ UNCHANGED << stateFile, regs, config, current_time, total_deficit_wh,
                    currently_charging, ret, runlog, lastSave, lastForcedPower >>

ConnectOutcomes == {"ok", "fail", "raise"}
WriteOutcomes == {"ok", "error", "raise"}

Attempt(reg, val, res) == [reg |-> reg, val |-> val, res |-> res]

\* force_charge_inverter: client.connect()
ForceConnect(p) ==
    /\ UNCHANGED << runs, env, fn >>
    /\ pc[p] = "fc_connect"
    /\ \E o \in ConnectOutcomes :
         /\ pc' = [pc EXCEPT ![p] = IF o = "ok" THEN "fc_write"
                                    ELSE IF o = "fail" THEN "fc_ret"
                                    ELSE "crashed"]
         /\ ret' = [ret EXCEPT ![p] = FALSE]
         /\ runlog' = [runlog EXCEPT
                         ![p].transition = IF o = "ok" THEN "force" ELSE "force_noconn",
                         ![p].crashAt = IF o = "raise" THEN "force" ELSE @]
    /\ UNCHANGED << stateFile, regs, config, current_time, total_deficit_wh,
                    currently_charging, should_charge, charge_rate, charging_power,
                    lastSave, lastForcedPower >>

\* force_charge_inverter: the next client.write_register and its isError check
ForceWriteStep(p) ==
    /\ UNCHANGED << runs, env, fn >>
    /\ pc[p] = "fc_write"
    /\ LET i == Len(runlog[p].writes) + 1
           w == ForceWrite(i, charging_power[p])
       IN  \E o \in WriteOutcomes :
             /\ regs' = IF o = "ok" THEN [regs EXCEPT ![w[1]] = w[2]] ELSE regs
             /\ runlog' = [runlog EXCEPT
                             ![p].writes = Append(@, Attempt(w[1], w[2], o)),
                             ![p].crashAt = IF o = "raise" THEN "force" ELSE @]
             /\ ret' = [ret EXCEPT ![p] = (o = "ok" /\ i = ForceLen)]
             /\ pc' = [pc EXCEPT ![p] =
                         IF o = "raise" THEN "crashed"
                         ELSE IF o = "error" \/ i = ForceLen THEN "fc_ret"
                         ELSE "fc_write"]
             /\ lastForcedPower' = IF o = "ok" /\ w[1] = REG_POWER
                                   THEN charging_power[p] ELSE lastForcedPower
    /\ UNCHANGED << stateFile, config, current_time, total_deficit_wh,
                    currently_charging, should_charge, charge_rate, charging_power,
                    lastSave >>

\* a start-charging branch that does not look at the result
StartBranchStateUnchecked(result) == TRUE

\* what the start-charging branch stores after force_charge_inverter returned
StartBranchState(result) == IF result THEN TRUE ELSE FALSE

\* the start-charging branch after force_charge_inverter returned
ForceReturn(p) ==
    /\ UNCHANGED << runs, env, fn >>
    /\ pc[p] = "fc_ret"
    /\ \E o \in SaveOutcomes :
         LET charging == StartBranchState(ret[p])
         IN  /\ currently_charging' = [currently_charging EXCEPT ![p] = charging]
             /\ stateFile' = save_charging_state(stateFile, charging, o)
             /\ runlog' = [runlog EXCEPT ![p].saves = @ + 1,
                                         ![p].savedArg = ArgName(charging),
                                         ![p].saveOk = (o = "ok")]
             /\ lastSave' = [arg |-> ArgName(charging), ok |-> (o = "ok"),
                              after |-> IF ret[p] THEN "force" ELSE "force_failed"]
    /\ pc' = [pc EXCEPT ![p] = "publish"]
    /\ UNCHANGED << regs, config, current_time, total_deficit_wh, should_charge,
                    charge_rate, charging_power, ret, lastForcedPower >>

\* reset_inverter_settings: client.connect(); an exception is caught
ResetConnect(p) ==
    /\ UNCHANGED << runs, env, fn >>
    /\ pc[p] = "rs_connect"
    /\ \E o \in ConnectOutcomes :
         /\ pc' = [pc EXCEPT ![p] = IF o = "ok" THEN "rs_write" ELSE "rs_ret"]
         /\ runlog' = [runlog EXCEPT
                         ![p].transition = IF o = "ok" THEN "reset" ELSE "reset_noconn"]
    /\ ret' = [ret EXCEPT ![p] = FALSE]
    /\ UNCHANGED << stateFile, regs, config, current_time, total_deficit_wh,
                    currently_charging, should_charge, charge_rate, charging_power,
                    lastSave, lastForcedPower >>

\* reset_inverter_settings: the next client.write_register and its isError
\* check; an exception is caught and makes the function return False
ResetWriteStep(p) ==
    /\ UNCHANGED << runs, env, fn >>
    /\ pc[p] = "rs_write"
    /\ LET i == Len(runlog[p].writes) + 1
           w == ResetWrite(i)
       IN  \E o \in WriteOutcomes :
             /\ regs' = IF o = "ok" THEN [regs EXCEPT ![w[1]] = w[2]] ELSE regs
             /\ runlog' = [runlog EXCEPT
                             ![p].writes = Append(@, Attempt(w[1], w[2], o))]
             /\ ret' = [ret EXCEPT ![p] = (o = "ok" /\ i = ResetLen)]
             /\ pc' = [pc EXCEPT ![p] =
                         IF o # "ok" \/ i = ResetLen THEN "rs_ret" ELSE "rs_write"]
    /\ UNCHANGED << stateFile, config, current_time, total_deficit_wh,
                    currently_charging, should_charge, charge_rate, charging_power,
                    lastSave, lastForcedPower >>

\* whether the stop-charging branch saves the state for this result of
\* reset_inverter_settings (the result is not looked at)
StopBranchSaves(result) == TRUE

\* the stop-charging branch after reset_inverter_settings returned
ResetReturn(p) ==
    /\ UNCHANGED << runs, env, fn >>
    /\ pc[p] = "rs_ret"
    /\ IF StopBranchSaves(ret[p])
       THEN \E o \in SaveOutcomes :
              /\ currently_charging' = [currently_charging EXCEPT ![p] = FALSE]
              /\ stateFile' = save_charging_state(stateFile, FALSE, o)
              /\ runlog' = [runlog EXCEPT ![p].saves = @ + 1,
                                          ![p].savedArg = ArgName(FALSE),
                                          ![p].saveOk = (o = "ok")]
              /\ lastSave' = [arg |-> ArgName(FALSE), ok |-> (o = "ok"),
                               after |-> IF ret[p] THEN "reset" ELSE "reset_failed"]
       ELSE UNCHANGED << currently_charging, stateFile, runlog, lastSave >>
    /\ pc' = [pc EXCEPT ![p] = "publish"]
    /\ UNCHANGED << regs, config, current_time, total_deficit_wh, should_charge,
                    charge_rate, charging_power, ret, lastForcedPower >>

\* whether building forecast_data raises NameError: current_soc_percent is
\* assigned only in the else-branch of 'if "error" in solar_forecast_data'
PublishFails(solar_error) == solar_error

\* what the broker does: the client connects and the messages are accepted,
\* setup_mqtt_client fails, or the client connects and publish fails
MqttOutcomes == {"ok", "connect_failed", "publish_failed"}
ConcMqttOutcomes == {"ok"}

\* an MQTT failure that ends the run
MqttAbortsOnFailure(outcome) == outcome # "ok"

\* whether an MQTT outcome ends the run: setup_mqtt_client returns None and
\* publish_mqtt_update returns False, every exception is caught
MqttAborts(outcome) == FALSE

\* MQTT setup, forecast_data, publishing and cleanup
PublishWith(p, outcomes) ==
    /\ UNCHANGED << runs, env, fn >>
    /\ pc[p] = "publish"
    /\ \E o \in outcomes :
         LET fails == PublishFails(env[p].solar_error)
         IN  /\ pc' = [pc EXCEPT ![p] =
                         IF fails \/ MqttAborts(o) THEN "crashed" ELSE "done"]
             /\ runlog' = [runlog EXCEPT
                             ![p].crashAt = IF fails THEN "publish"
                                            ELSE IF MqttAborts(o) THEN "mqtt" ELSE @,
                             ![p].mqtt = o]
    /\ UNCHANGED << stateFile, regs, config, current_time, total_deficit_wh,
                    currently_charging, should_charge, charge_rate, charging_power,
                    ret, lastSave, lastForcedPower >>

Publish(p) == PublishWith(p, MqttOutcomes)

\* the process ends (normally or by the uncaught exception)
EndRun(p) ==
    /\ UNCHANGED << runs, fn >>
    /\ env' = [env EXCEPT ![p] = NoEnv]
    /\ pc[p] \in {"done", "crashed"}
    /\ pc' = [pc EXCEPT ![p] = "idle"]
    /\ current_time' = [current_time EXCEPT ![p] = 0]
    /\ total_deficit_wh' = [total_deficit_wh EXCEPT ![p] = 0]
    /\ currently_charging' = [currently_charging EXCEPT ![p] = FALSE]
    /\ should_charge' = [should_charge EXCEPT ![p] = FALSE]
    /\ charge_rate' = [charge_rate EXCEPT ![p] = 0]
    /\ charging_power' = [charging_power EXCEPT ![p] = 0]
    /\ ret' = [ret EXCEPT ![p] = FALSE]
    /\ runlog' = [runlog EXCEPT ![p] = NewLog(FileAbsent)]
    /\ UNCHANGED << stateFile, regs, config, lastSave, lastForcedPower >>

\* runs one after the other, as the scheduler starts them
Next ==
    \/ \E p \in SeqProcs : StartRun(p)
    \/ \E p \in SeqProcs : Publish(p)
    \/ \E p \in SeqProcs : LoadState(p)
    \/ \E p \in SeqProcs : Decide(p)
    \/ \E p \in SeqProcs : ForceConnect(p)
    \/ \E p \in SeqProcs : ForceWriteStep(p)
    \/ \E p \in SeqProcs : ForceReturn(p)
    \/ \E p \in SeqProcs : ResetConnect(p)
    \/ \E p \in SeqProcs : ResetWriteStep(p)
    \/ \E p \in SeqProcs : ResetReturn(p)
    \/ \E p \in SeqProcs : EndRun(p)

Spec == Init /\ [][Next]_vars

\* runs that overlap in time: nothing in the script keeps a second run from
\* starting while the first has not finished
StartOverlapping(p) ==
    /\ runs < MaxConcRuns
    /\ runs' = runs + 1
    /\ StartRunWith(p, ConcTimes, ConcDeficits, ConcEnvs)

InitConc ==
    /\ Init
    /\ stateFile = FileAbsent
    /\ regs[REG_DISCHARGE] = DISCHARGE_DEFAULT
    /\ CHEAP_POWER_WINDOW = << <<23, 0>>, <<6, 0>> >>
    /\ MAX_BATTERY_CHARGE_RATE = 5000

NextConc ==
    \/ \E p \in Procs : StartOverlapping(p)
    \/ \E p \in Procs : PublishWith(p, ConcMqttOutcomes)
    \/ \E p \in Procs : LoadState(p)
    \/ \E p \in Procs : Decide(p)
    \/ \E p \in Procs : ForceConnect(p)
    \/ \E p \in Procs : ForceWriteStep(p)
    \/ \E p \in Procs : ForceReturn(p)
    \/ \E p \in Procs : ResetConnect(p)
    \/ \E p \in Procs : ResetWriteStep(p)
    \/ \E p \in Procs : ResetReturn(p)
    \/ \E p \in Procs : EndRun(p)

SpecConc == InitConc /\ [][NextConc]_vars

---------------------------------------------------------------------------
(* calculate_charge_rate on its own *)

\* everything but fn stays as a deployment that has not run yet
RunIdle ==
    /\ InitRun
    /\ stateFile = FileAbsent
    /\ regs[REG_DISCHARGE] = DISCHARGE_DEFAULT
    /\ CHEAP_POWER_WINDOW = << <<23, 0>>, <<6, 0>> >>
    /\ MAX_BATTERY_CHARGE_RATE = 5000

run_vars == << stateFile, regs, CHEAP_POWER_WINDOW, MAX_BATTERY_CHARGE_RATE, pc,
               current_time, total_deficit_wh, currently_charging, should_charge,
               charge_rate, charging_power, ret, runlog, lastSave,
               lastForcedPower, runs, env >>

InitRate ==
    /\ RunIdle
    /\ \E d \in RateDeficits, w \in RateWindows, now \in RateTimes :
         fn = [op |-> "rate", phase |-> "input", deficit |-> d, window |-> w,
               now |-> now, rate |-> 0, usable |-> 0, rolled |-> << 0, 0 >>]

\* one call calculate_charge_rate(deficit_kwh, window_start, window_end,
\* current_time); for windows that parse, the interval it worked with is kept
CalcRate ==
    /\ fn.op = "rate" /\ fn.phase = "input"
    /\ LET ok == ParseOk(fn.window[1]) /\ ParseOk(fn.window[2])
           start0 == ParseHHMM(fn.window[1])
           end0 == ParseHHMM(fn.window[2])
       IN  fn' = [fn EXCEPT
                    !.phase = "done",
                    !.rate = calculate_charge_rate(fn.deficit, fn.window[1],
                                                   fn.window[2], fn.now),
                    !.usable = IF ok THEN UsableMinutes(start0, end0, fn.now) ELSE 0,
                    !.rolled = IF ok THEN RolledWindow(start0, end0, fn.now)
                               ELSE << 0, 0 >>]
    /\ UNCHANGED run_vars

NextRate == CalcRate

SpecRate == InitRate /\ [][NextRate]_vars

---------------------------------------------------------------------------
(* Daily aggregation of the sensor history and the forecast rows *)

HA_BATTERY_CHARGE_RATE_SENSOR == "charge_rate_sensor"
HA_BATTERY_SOC_SENSOR == "soc_sensor"
HA_POWER_USAGE_SENSOR == "power_usage_sensor"
Entities == {HA_BATTERY_CHARGE_RATE_SENSOR, HA_BATTERY_SOC_SENSOR,
             HA_POWER_USAGE_SENSOR}
PowerEntities == {HA_BATTERY_CHARGE_RATE_SENSOR, HA_POWER_USAGE_SENSOR}

\* get_sensor_type on the essential attributes of a row, which always hold
\* the key unit_of_measurement: its value None (no unit reported) has no
\* lower(), which raises AttributeError. The rows carry no device_class.
get_sensor_type(unit) ==
    IF unit = MissingUnit THEN "raise"
    ELSE IF unit = "W" THEN "power"
    ELSE IF unit = "%" THEN "soc"
    ELSE "none"

\* the rows of df that survive dropna: Entity, Time, State and the unit of
\* the Attributes; the power sensors report W and the SOC sensor %
TypedReadings ==
    {[Entity |-> e, Time |-> t, State |-> v, Unit |-> "W"] :
        e \in PowerEntities, t \in ReadingTimes, v \in PowerValues}
    \cup {[Entity |-> HA_BATTERY_SOC_SENSOR, Time |-> t, State |-> v, Unit |-> "%"] :
            t \in ReadingTimes, v \in SocValues}
OddReadings ==
    {[Entity |-> HA_POWER_USAGE_SENSOR, Time |-> 72000, State |-> 100,
      Unit |-> MissingUnit],
     [Entity |-> HA_POWER_USAGE_SENSOR, Time |-> 82800, State |-> 100,
      Unit |-> OtherUnit],
     [Entity |-> HA_POWER_USAGE_SENSOR, Time |-> 90000, State |-> 100,
      Unit |-> OtherUnit],
     [Entity |-> HA_BATTERY_CHARGE_RATE_SENSOR, Time |-> 72000, State |-> 50,
      Unit |-> "%"],
     [Entity |-> HA_BATTERY_CHARGE_RATE_SENSOR, Time |-> 90000, State |-> 50,
      Unit |-> "%"],
     [Entity |-> HA_BATTERY_SOC_SENSOR, Time |-> 90000, State |-> 50,
      Unit |-> OtherUnit]}
Readings == TypedReadings \cup OddReadings

RECURSIVE SubsetsUpTo(_, _)
SubsetsUpTo(U, n) ==
    IF n = 0 THEN {{}}
    ELSE LET smaller == SubsetsUpTo(U, n - 1)
         IN  smaller \cup {S \cup {x} : S \in smaller, x \in U}

\* group["Time"].dt.date, as a day number
DateOf(time) == time \div 86400
AllDates == {DateOf(t) : t \in ReadingTimes}

\* df.groupby("Entity"): the rows of one entity
Group(readings, entity) == {r \in readings : r.Entity = entity}

\* group.sort_values("Time"): the orders the sort can give, rows with equal
\* timestamps in any order
RECURSIVE sort_values(_)
sort_values(group) ==
    IF group = {} THEN {<< >>}
    ELSE UNION {{<< r >> \o rest : rest \in sort_values(group \ {r})} :
                 r \in {r \in group : \A q \in group : r.Time <= q.Time}}

\* a difference taken from midnight for the first row
Time_DiffFromMidnight(group, i) ==
    IF i = 1 THEN group[1].Time % 86400 ELSE group[i].Time - group[i - 1].Time

\* group["Time"].diff().dt.total_seconds().fillna(0)
Time_Diff(group, i) ==
    IF i = 1 THEN 0 ELSE group[i].Time - group[i - 1].Time

\* the power of a row spread over the time to the next row
Energy_WhForward(group, i) ==
    IF i = Len(group) THEN 0
    ELSE (group[i].State * (group[i + 1].Time - group[i].Time)) \div 3600

\* (group["State"] * group["Time_Diff"]) / 3600
Energy_Wh(group, i) == (group[i].State * Time_Diff(group, i)) \div 3600

RECURSIVE DateSum(_, _, _)
DateSum(group, date, n) ==
    IF n = 0 THEN 0
    ELSE DateSum(group, date, n - 1)
         + (IF DateOf(group[n].Time) = date THEN Energy_Wh(group, n) ELSE 0)

\* group.groupby("Date")["Energy_Wh"].sum(): the dates of the index and the
\* sum of each (0 outside the index)
daily_energy(group) ==
    [dates |-> {DateOf(group[i].Time) : i \in 1..Len(group)},
     sum |-> [d \in AllDates |-> DateSum(group, d, Len(group))]]

SetMin(S) == CHOOSE x \in S : \A y \in S : x <= y
SetMax(S) == CHOOSE x \in S : \A y \in S : x >= y

\* daily_min / daily_max of the rows of one SOC group, keyed by date
SocStats(group) ==
    LET dates == {DateOf(r.Time) : r \in group}
        states(d) == {r.State : r \in {q \in group : DateOf(q.Time) = d}}
    IN  [dates |-> dates,
         min |-> [d \in AllDates |-> IF d \in dates THEN SetMin(states(d)) ELSE 0],
         max |-> [d \in AllDates |-> IF d \in dates THEN SetMax(states(d)) ELSE 0]]

\* sensor_type of a sorted group: group["SensorType"].iloc[0], which is None
\* as well when every row of the group has None
SensorTypeOf(group) ==
    IF group = << >> THEN "absent" ELSE get_sensor_type(group[1].Unit)

\* latest_soc: None until a SOC group has been processed
NoSoc == [known |-> FALSE, value |-> 0]

\* the orders in which groupby can yield the entities: the order of their ids
EntityOrders ==
    {order \in [1..3 -> Entities] : \A i, j \in 1..3 : order[i] = order[j] => i = j}

\* the soc branch over the first n groups of the loop: soc_stats[date] is
\* assigned per date, latest_soc is the State of the last row of the group
RECURSIVE SocLoop(_, _, _)
SocLoop(order, sorted, n) ==
    IF n = 0 THEN [soc_stats |-> SocStats({}), latest_soc |-> NoSoc]
    ELSE LET before == SocLoop(order, sorted, n - 1)
             group == sorted[order[n]]
             stats == SocStats({group[i] : i \in 1..Len(group)})
         IN  IF SensorTypeOf(group) # "soc" THEN before
             ELSE [soc_stats |->
                     [dates |-> before.soc_stats.dates \cup stats.dates,
                      min |-> [d \in AllDates |->
                                 IF d \in stats.dates THEN stats.min[d]
                                 ELSE before.soc_stats.min[d]],
                      max |-> [d \in AllDates |->
                                 IF d \in stats.dates THEN stats.max[d]
                                 ELSE before.soc_stats.max[d]]],
                   latest_soc |-> [known |-> TRUE,
                                   value |-> group[Len(group)].State]]

\* current_soc_percent = latest_soc if latest_soc is not None else 0.0
CurrentSocPercent(latest_soc) == IF latest_soc.known THEN latest_soc.value ELSE 0

\* dates taken from any of the three series
ForecastDatesAnySeries(charge, load, soc) ==
    charge.dates \cup load.dates \cup soc.dates

\* set(results[charge].index) & set(results[load].index) & set(soc_stats.keys())
ForecastDates(charge, load, soc) ==
    charge.dates \cap load.dates \cap soc.dates

RECURSIVE SortedSeq(_)
SortedSeq(S) ==
    IF S = {} THEN << >> ELSE << SetMin(S) >> \o SortedSeq(S \ {SetMin(S)})

\* forecast_data: one row appended per date of sorted(dates)
ForecastData(charge, load, soc) ==
    LET dates == SortedSeq(ForecastDates(charge, load, soc))
    IN  [i \in 1..Len(dates) |->
           [Date |-> dates[i],
            Battery_Charge |-> charge.sum[dates[i]],
            Load_Consumed |-> load.sum[dates[i]],
            Battery_Min_SOC |-> soc.min[dates[i]],
            Battery_Max_SOC |-> soc.max[dates[i]],
            SOC_Delta |-> soc.max[dates[i]] - soc.min[dates[i]]]]

NoSeries == [dates |-> {}, sum |-> [d \in AllDates |-> 0]]

InitAgg ==
    /\ RunIdle
    /\ \E readings \in SubsetsUpTo(Readings, MaxReadings) :
         fn = [op |-> "agg", phase |-> "input", readings |-> readings,
               sorted |-> [e \in Entities |-> << >>],
               sensor_type |-> [e \in Entities |-> "absent"],
               energy |-> [e \in Entities |-> << >>],
               results |-> [e \in Entities |-> NoSeries],
               soc_stats |-> SocStats({}),
               latest_soc |-> NoSoc,
               current_soc_percent |-> 0,
               forecast_data |-> << >>]

\* df["Entity"] of a frame built from no row at all raises KeyError, and
\* df["Attributes"].apply(get_sensor_type) raises on a row without unit
AggregateRaises(readings) ==
    \/ readings = {}
    \/ \E r \in readings : get_sensor_type(r.Unit) = "raise"

\* the loop over df.groupby("Entity"), the preparation of df_forecast and the
\* current SOC of the deficit calculation
Aggregate ==
    /\ fn.op = "agg" /\ fn.phase = "input"
    /\ IF AggregateRaises(fn.readings)
       THEN fn' = [fn EXCEPT !.phase = "crashed"]
       ELSE
       \E order \in EntityOrders,
          charge \in sort_values(Group(fn.readings, HA_BATTERY_CHARGE_RATE_SENSOR)),
          load \in sort_values(Group(fn.readings, HA_POWER_USAGE_SENSOR)),
          soc \in sort_values(Group(fn.readings, HA_BATTERY_SOC_SENSOR)) :
         LET sorted == [e \in Entities |->
                          IF e = HA_BATTERY_CHARGE_RATE_SENSOR THEN charge
                          ELSE IF e = HA_POWER_USAGE_SENSOR THEN load ELSE soc]
             sensor_type == [e \in Entities |-> SensorTypeOf(sorted[e])]
             results == [e \in Entities |->
                           IF sensor_type[e] = "power" THEN daily_energy(sorted[e])
                           ELSE NoSeries]
             socs == SocLoop(order, sorted, 3)
         IN  fn' = [fn EXCEPT
                      !.phase = "done",
                      !.sorted = sorted,
                      !.sensor_type = sensor_type,
                      !.energy = [e \in Entities |->
                                    IF sensor_type[e] = "power"
                                    THEN [i \in 1..Len(sorted[e]) |->
                                            Energy_Wh(sorted[e], i)]
                                    ELSE << >>],
                      !.results = results,
                      !.soc_stats = socs.soc_stats,
                      !.latest_soc = socs.latest_soc,
                      !.current_soc_percent = CurrentSocPercent(socs.latest_soc),
                      !.forecast_data =
                          ForecastData(results[HA_BATTERY_CHARGE_RATE_SENSOR],
                                       results[HA_POWER_USAGE_SENSOR],
                                       socs.soc_stats)]
    /\ UNCHANGED run_vars

NextAgg == Aggregate

SpecAgg == InitAgg /\ [][NextAgg]_vars

---------------------------------------------------------------------------
(* Solar forecast and its cache *)

\* the content of the cache file: no file, text that is no JSON, JSON that is
\* no object, or an object with its "timestamp" and "forecast"
CacheAbsent == [kind |-> "absent", ts |-> "missing", age |-> 0, fc |-> "missing",
                total |-> 0]
CacheFiles ==
    {CacheAbsent}
    \cup {[kind |-> k, ts |-> "missing", age |-> 0, fc |-> "missing", total |-> 0] :
            k \in {"garbage", "nonrecord"}}
    \cup {[kind |-> "record", ts |-> t, age |-> 0, fc |-> f.fc, total |-> f.total] :
            t \in {"missing", "invalid", "nonstring"},
            f \in {[fc |-> "missing", total |-> 0], [fc |-> "nototal", total |-> 0]}
                  \cup {[fc |-> "ok", total |-> x] : x \in SolarTotals}}
    \cup {[kind |-> "record", ts |-> "iso", age |-> a, fc |-> f.fc, total |-> f.total] :
            a \in CacheAges,
            f \in {[fc |-> "missing", total |-> 0], [fc |-> "nototal", total |-> 0]}
                  \cup {[fc |-> "ok", total |-> x] : x \in SolarTotals}}

\* what requests.get(url) and response.json() give
FetchOutcomes ==
    {[kind |-> "request_error", total |-> 0], [kind |-> "no_hourly", total |-> 0]}
    \cup {[kind |-> "ok", total |-> x] : x \in SolarTotals}

\* json.dump of {"timestamp": now, "forecast": {...}}
CacheWritten(total) ==
    [kind |-> "record", ts |-> "iso", age |-> 0, fc |-> "ok", total |-> total]

\* the part of get_solar_forecast_advanced after the cache: the request, the
\* error values, the forecast and the write of the cache file
FetchForecast(cache, fetch) ==
    IF fetch.kind \in {"request_error", "no_hourly"}
    THEN [raised |-> FALSE, kind |-> "error", total |-> 0, fetched |-> TRUE,
          cache |-> cache]
    ELSE [raised |-> FALSE, kind |-> "forecast", total |-> fetch.total,
          fetched |-> TRUE, cache |-> CacheWritten(fetch.total)]

\* datetime.now() - cache_time < timedelta(minutes=cache_duration_minutes)
CacheFresh(age, cache_duration_minutes) == age < cache_duration_minutes

\* cached.get("forecast", {}) as the run will see it
CachedForecast(cache) ==
    [raised |-> FALSE,
     kind |-> IF cache.fc = "ok" THEN "forecast"
              ELSE IF cache.fc = "nototal" THEN "nototal" ELSE "empty",
     total |-> cache.total, fetched |-> FALSE, cache |-> cache]

\* an exception that leaves get_solar_forecast_advanced
SolarRaised(cache) ==
    [raised |-> TRUE, kind |-> "error", total |-> 0, fetched |-> FALSE,
     cache |-> cache]

get_solar_forecast_advanced(cache, use_cache, cache_duration_minutes, fetch) ==
    IF ~use_cache \/ cache.kind = "absent" THEN FetchForecast(cache, fetch)
    ELSE IF cache.kind = "garbage" THEN FetchForecast(CacheAbsent, fetch)
    ELSE IF cache.kind = "nonrecord" THEN SolarRaised(cache)
    ELSE IF cache.ts = "missing" THEN FetchForecast(cache, fetch)
    ELSE IF cache.ts = "invalid" THEN FetchForecast(CacheAbsent, fetch)
    ELSE IF cache.ts = "nonstring" THEN SolarRaised(cache)
    ELSE IF CacheFresh(cache.age, cache_duration_minutes) THEN CachedForecast(cache)
    ELSE FetchForecast(cache, fetch)

\* the start of the deficit calculation with a positive efficiency: the error
\* is printed, or solar_forecast_data["total_solar_kwh"] is read
ReadForecast(result) ==
    IF result.kind = "error" THEN "error_printed"
    ELSE IF result.kind = "forecast" THEN "read_total"
    ELSE "KeyError"

InitSolar ==
    /\ RunIdle
    /\ \E cache \in CacheFiles, use_cache \in BOOLEAN, ttl \in CacheDurations,
          fetch \in FetchOutcomes :
         fn = [op |-> "solar", phase |-> "input", cache |-> cache,
               use_cache |-> use_cache, cache_duration |-> ttl, fetch |-> fetch,
               result |-> SolarRaised(cache), read |-> "none"]

GetSolarForecast ==
    /\ fn.op = "solar" /\ fn.phase = "input"
    /\ LET result == get_solar_forecast_advanced(fn.cache, fn.use_cache,
                                                 fn.cache_duration, fn.fetch)
       IN  fn' = [fn EXCEPT !.phase = IF result.raised THEN "crashed" ELSE "returned",
                            !.result = result]
    /\ UNCHANGED run_vars

DeficitRead ==
    /\ fn.op = "solar" /\ fn.phase = "returned"
    /\ LET read == ReadForecast(fn.result)
       IN  fn' = [fn EXCEPT !.phase = IF read = "KeyError" THEN "crashed" ELSE "used",
                            !.read = read]
    /\ UNCHANGED run_vars

NextSolar == GetSolarForecast \/ DeficitRead

SpecSolar == InitSolar /\ [][NextSolar]_vars

---------------------------------------------------------------------------
(* The inverter connection of one call *)

InverterFunctions == {"force_charge_inverter", "reset_inverter_settings",
                      "read_battery_status"}

CallModes == {MODE_AUTO, MODE_FORCE}

\* read_battery_status makes two read_holding_registers exchanges
ReadLen == 2

\* the register exchanges of the function, when none fails
ExchangeLen(func) ==
    IF func = "force_charge_inverter" THEN ForceLen
    ELSE IF func = "reset_inverter_settings" THEN ResetLen
    ELSE ReadLen

\* reset_inverter_settings and read_battery_status have an except Exception
\* clause that returns; force_charge_inverter has none
CatchesException(func) == func # "force_charge_inverter"

\* a function end that leaves the client as it is
ClientCloseSkipped(conn) == conn

\* the finally clause: client.close()
ClientClose(conn) == IF conn = "open" THEN "closed" ELSE conn

\* how the try body is left on an exception
OnException(func) == IF CatchesException(func) THEN "return" ELSE "raise"

InitCall ==
    /\ RunIdle
    /\ \E func \in InverterFunctions, power \in CallPowers, mode \in CallModes :
         fn = [op |-> "call", func |-> func, power |-> power,
               step |-> "connect", conn |-> "none", log |-> << >>,
               leaving |-> "none",
               regs |-> [r \in Registers |->
                           IF r = REG_MODE THEN mode
                           ELSE IF r = REG_POWER THEN POWER_NEUTRAL
                           ELSE IF r = REG_SOC THEN SOC_FLOOR_DEFAULT
                           ELSE DISCHARGE_DEFAULT]]

\* client = ModbusTcpClient(host, ...) and client.connect()
ClientConnect ==
    /\ fn.op = "call" /\ fn.step = "connect"
    /\ \E o \in ConnectOutcomes :
         fn' = [fn EXCEPT
                  !.conn = IF o = "ok" THEN "open" ELSE @,
                  !.step = IF o = "ok" THEN "exchange" ELSE "finally",
                  !.leaving = IF o = "ok" THEN "none"
                              ELSE IF o = "fail" THEN "return"
                              ELSE OnException(fn.func)]
    /\ UNCHANGED run_vars

\* the next client.write_register or client.read_holding_registers and its
\* isError check
ClientExchange ==
    /\ fn.op = "call" /\ fn.step = "exchange"
    /\ LET i == Len(fn.log) + 1
           w == IF fn.func = "force_charge_inverter"
                THEN ForceWrite(i, LimitPower(fn.power, MAX_BATTERY_CHARGE_RATE))
                ELSE IF fn.func = "reset_inverter_settings" THEN ResetWrite(i)
                ELSE << REG_MODE, fn.regs[REG_MODE] >>
       IN  \E o \in WriteOutcomes :
             fn' = [fn EXCEPT
                      !.log = Append(@, o),
                      !.regs = IF o = "ok" /\ fn.func # "read_battery_status"
                               THEN [@ EXCEPT ![w[1]] = w[2]] ELSE @,
                      !.step = IF o = "ok" /\ i < ExchangeLen(fn.func)
                               THEN "exchange" ELSE "finally",
                      !.leaving = IF o = "raise" THEN OnException(fn.func)
                                  ELSE IF o = "error" \/ i = ExchangeLen(fn.func)
                                  THEN "return" ELSE "none"]
    /\ UNCHANGED run_vars

\* the finally clause runs, then the function returns or the exception goes on
ClientFinally ==
    /\ fn.op = "call" /\ fn.step = "finally"
    /\ fn' = [fn EXCEPT !.conn = ClientClose(fn.conn),
                        !.step = IF fn.leaving = "raise" THEN "raised" ELSE "returned"]
    /\ UNCHANGED run_vars

NextCall == ClientConnect \/ ClientExchange \/ ClientFinally

SpecCall == InitCall /\ [][NextCall]_vars

---------------------------------------------------------------------------
(* simple_battery_test.py: the start, stop and status actions *)

TestActions == {"start", "stop", "status"}

\* None in a status that read_battery_status returns
NoStatus == -1

\* (control_mode, charge_rate) pairs read_battery_status may return: (None,
\* None) when the mode cannot be read, else a mode with a rate or None
Statuses ==
    {s \in TestModes \X TestRates : s[1] = NoStatus => s[2] = NoStatus}

\* the start action's test for a battery that is already force charging
AlreadyForceCharge(mode) == mode \in {2, 100}

\* the stop action's test for a battery that is already in Automatic Mode
AlreadyAutomatic(mode, rate) == mode \in {0, 1} \/ (mode = 100 /\ rate = 10000)

\* test_charge_rate of the start action
TestChargeRate(max_charge_rate) == max_charge_rate \div 2

\* the first message main publishes for the action
FirstStatus(action) ==
    IF action = "start" THEN "starting"
    ELSE IF action = "stop" THEN "stopping" ELSE "checking"

InitTest ==
    /\ RunIdle
    /\ \E action \in TestActions :
         fn = [op |-> "test", action |-> action, step |-> "read",
               mode |-> NoStatus, rate |-> NoStatus, called |-> FALSE,
               writes |-> << >>, success |-> FALSE, result |-> "none",
               published |-> FirstStatus(action)]

\* mode, rate = read_battery_status(...) and the test for mode None; the status
\* action ends here
TestRead ==
    /\ fn.op = "test" /\ fn.step = "read"
    /\ \E s \in Statuses :
         fn' = [fn EXCEPT
                  !.mode = s[1], !.rate = s[2],
                  !.step = IF s[1] = NoStatus \/ fn.action = "status"
                           THEN "returned" ELSE "act",
                  !.result = IF s[1] = NoStatus THEN "false"
                             ELSE IF fn.action = "status" THEN "true" ELSE @,
                  !.published = IF s[1] = NoStatus THEN "error"
                                ELSE IF fn.action = "status" THEN "status" ELSE @]
    /\ UNCHANGED run_vars

\* the classification of the status that was read and, unless it says there is
\* nothing to do, the call of force_charge_inverter or reset_inverter_settings:
\* the connect result c, then k accepted writes, the next one failing with o
TestAct ==
    /\ fn.op = "test" /\ fn.step = "act"
    /\ LET start == fn.action = "start"
           already == IF start THEN AlreadyForceCharge(fn.mode)
                      ELSE AlreadyAutomatic(fn.mode, fn.rate)
           len == IF start THEN ForceLen ELSE ResetLen
           power == LimitPower(TestChargeRate(MAX_BATTERY_CHARGE_RATE),
                               MAX_BATTERY_CHARGE_RATE)
       IN  IF already
           THEN fn' = [fn EXCEPT !.step = "returned", !.result = "true",
                                 !.published = IF start THEN "already_charging"
                                               ELSE "stopped"]
           ELSE \E c \in ConnectOutcomes, k \in 0..len, o \in {"error", "raise"} :
                  LET n == IF c = "ok" THEN k ELSE 0
                      success == c = "ok" /\ k = len
                      raised == start /\ (c = "raise" \/ (~success /\ c = "ok" /\ o = "raise"))
                  IN  fn' = [fn EXCEPT
                               !.called = TRUE,
                               !.success = success,
                               !.writes = [i \in 1..n |->
                                             IF start THEN ForceWrite(i, power)
                                             ELSE ResetWrite(i)],
                               !.step = IF success THEN "verify"
                                        ELSE IF raised THEN "raised" ELSE "returned",
                               !.result = IF success \/ raised THEN @ ELSE "false",
                               !.published = IF success \/ raised THEN @ ELSE "error"]
    /\ UNCHANGED run_vars

\* verify_mode, verify_rate = read_battery_status(...) after a call that
\* succeeded
TestVerify ==
    /\ fn.op = "test" /\ fn.step = "verify"
    /\ \E s \in Statuses :
         LET good == IF fn.action = "start" THEN AlreadyForceCharge(s[1])
                     ELSE AlreadyAutomatic(s[1], s[2])
         IN  fn' = [fn EXCEPT
                      !.step = "returned",
                      !.result = IF good THEN "true" ELSE "false",
                      !.published = IF ~good THEN "error"
                                    ELSE IF fn.action = "start" THEN "charging"
                                    ELSE "stopped"]
    /\ UNCHANGED run_vars

NextTest == TestRead \/ TestAct \/ TestVerify

SpecTest == InitTest /\ [][NextTest]_vars

---------------------------------------------------------------------------
(* mqtt_discovery.py: main and its retries *)

\* len(sensors) of publish_mqtt_discovery
NumSensors == 10

\* setup_mqtt_client: the client it returns connected; no connection was
\* confirmed within max_retries polls; client.connect raised
SetupOutcomes == {"connected", "not_connected", "raise"}

\* mqtt_client.publish of one discovery message: rc == 0, another rc, raise
DiscoveryOutcomes == {"ok", "rc", "raise"}

\* what setup_mqtt_client returns: the client or None; on the failure paths it
\* has stopped and disconnected the client itself
SetupClient(outcome) == IF outcome = "connected" THEN "connected" ELSE "none"

\* a cleanup that leaves the client as it is
CleanupSkipped(client) == client

\* the cleanup of main: mqtt_client.loop_stop(); mqtt_client.disconnect()
Cleanup(client) == IF client = "connected" THEN "disconnected" ELSE client

InitDisc ==
    /\ RunIdle
    /\ \E n \in RetryAttempts :
         fn = [op |-> "disc", retry_attempts |-> n, attempt |-> 0,
               step |-> "loop", client |-> "none", made |-> 0,
               sensor |-> 0, success_count |-> 0, success |-> FALSE,
               won |-> FALSE, code |-> -1]

\* for attempt in range(args.retry_attempts), and the return 1 after the loop
DiscLoop ==
    /\ fn.op = "disc" /\ fn.step = "loop"
    /\ fn' = IF fn.attempt < fn.retry_attempts
             THEN [fn EXCEPT !.step = "setup", !.made = @ + 1,
                             !.client = "none", !.success = FALSE]
             ELSE [fn EXCEPT !.step = "returned", !.code = 1]
    /\ UNCHANGED run_vars

\* mqtt_client = setup_mqtt_client(...) and the test of its result
DiscSetup ==
    /\ fn.op = "disc" /\ fn.step = "setup"
    /\ \E o \in SetupOutcomes :
         fn' = [fn EXCEPT !.client = SetupClient(o),
                          !.sensor = 0, !.success_count = 0,
                          !.step = IF SetupClient(o) = "connected"
                                   THEN "publish" ELSE "delay"]
    /\ UNCHANGED run_vars

\* publish_mqtt_discovery: the publish of the next sensor, and after the last
\* one the result success_count == len(sensors)
DiscPublish ==
    /\ fn.op = "disc" /\ fn.step = "publish"
    /\ \E o \in DiscoveryOutcomes :
         LET count == fn.success_count + (IF o = "ok" THEN 1 ELSE 0)
             last == fn.sensor + 1 = NumSensors
         IN  fn' = [fn EXCEPT !.sensor = @ + 1,
                              !.success_count = count,
                              !.success = last /\ count = NumSensors,
                              !.won = last /\ count = NumSensors,
                              !.step = IF last THEN "cleanup" ELSE "publish"]
    /\ UNCHANGED run_vars

\* the cleanup of the client, then return 0 on success
DiscCleanup ==
    /\ fn.op = "disc" /\ fn.step = "cleanup"
    /\ fn' = [fn EXCEPT !.client = Cleanup(fn.client),
                        !.step = IF fn.success THEN "returned" ELSE "delay",
                        !.code = IF fn.success THEN 0 ELSE @]
    /\ UNCHANGED run_vars

\* the retry delay, taken before every attempt but the first
DiscDelay ==
    /\ fn.op = "disc" /\ fn.step = "delay"
    /\ fn' = [fn EXCEPT !.attempt = @ + 1, !.step = "loop"]
    /\ UNCHANGED run_vars

NextDisc == DiscLoop \/ DiscSetup \/ DiscPublish \/ DiscCleanup \/ DiscDelay

SpecDisc == InitDisc /\ [][NextDisc]_vars

\* main runs on until it returns
SpecDiscFair == SpecDisc /\ WF_vars(NextDisc)

TypeOK ==
    /\ pc \in [Procs -> {"idle", "publish", "load", "decide", "fc_connect", "fc_write",
                         "fc_ret", "rs_connect", "rs_write", "rs_ret", "done",
                         "crashed"}]
    /\ currently_charging \in [Procs -> BOOLEAN]
    /\ should_charge \in [Procs -> BOOLEAN]
    /\ \A r \in Registers : regs[r] \in 0..65535

---------------------------------------------------------------------------
(* Properties *)

Done(p) == pc[p] = "done"
ForceTried(p) == runlog[p].transition \in {"force", "force_noconn"}
ResetTried(p) == runlog[p].transition \in {"reset", "reset_noconn"}
\* the writes the run has attempted on register reg that the inverter accepted
OkWrites(p, reg) ==
    {i \in 1..Len(runlog[p].writes) :
        runlog[p].writes[i].reg = reg /\ runlog[p].writes[i].res = "ok"}
\* no write was attempted after one that did not succeed
StoppedAtFailure(p) ==
    \A i \in 1..Len(runlog[p].writes) :
        i < Len(runlog[p].writes) => runlog[p].writes[i].res = "ok"
Abs(x) == IF x < 0 THEN -x ELSE x
FactoryDefaults ==
    /\ regs[REG_MODE] = 0
    /\ regs[REG_POWER] = 10000
    /\ regs[REG_SOC] = 500
    /\ regs[REG_DISCHARGE] = 10000

\* C1: a run whose reset of the inverter failed (no connection, or a register
\* write in error) leaves the persisted state as it found it: still charging.
C1_FailedResetKeepsState ==
    \A p \in SeqProcs :
        (Done(p) /\ ResetTried(p) /\ ~ret[p]) =>
            /\ stateFile = runlog[p].fileAtStart
            /\ stateFile = FileRecord("true")

\* C2: when the connect or one of the three writes of the forced charge fails,
\* force_charge_inverter returns False, attempts no further write, and the run
\* does not store currently_charging = true.
C2_FailedForceNotSavedCharging ==
    \A p \in SeqProcs :
        (pc[p] \in {"fc_ret", "done"} /\ ForceTried(p) /\ ~ret[p]) =>
            /\ runlog[p].savedArg # "true"
            /\ StoppedAtFailure(p)
            /\ Len(runlog[p].writes) <= 3
            /\ (runlog[p].transition = "force_noconn" => runlog[p].writes = << >>)
            /\ (runlog[p].writes # << >> =>
                    runlog[p].writes[Len(runlog[p].writes)].res = "error")
            /\ (stateFile = FileRecord("true") =>
                    runlog[p].fileAtStart = FileRecord("true"))

C2_Witness ==
    /\ Done(1) /\ runlog[1].transition = "force" /\ ~ret[1]
    /\ Len(runlog[1].writes) = 2
    /\ runlog[1].writes[2].reg = 40355 /\ runlog[1].writes[2].res = "error"
    /\ runlog[1].saves = 1

\* C3: every run loads the state once, before any register write, saves at
\* most once, and saves only after a transition that succeeded.
C3_SaveOnlyAfterConfirmed ==
    \A p \in SeqProcs :
        /\ runlog[p].loads <= 1
        /\ (runlog[p].writes # << >> => runlog[p].loads = 1)
        /\ (Done(p) => runlog[p].loads = 1)
        /\ runlog[p].saves <= 1
        /\ (runlog[p].saves > 0 => ret[p])

\* C4: two overlapping runs never both run a forced-charge transition, and
\* their register writes never interleave.
C4_MutualExclusion ==
    \A p \in Procs : \A q \in Procs \ {p} :
        /\ ~(runlog[p].transition = "force" /\ runlog[q].transition = "force")
        /\ ~(/\ pc[p] \in {"fc_write", "rs_write"} /\ runlog[p].writes # << >>
             /\ pc[q] \in {"fc_write", "rs_write"} /\ runlog[q].writes # << >>)

\* C5: a run whose decision equals the state it loaded writes no register and
\* does not save: registers and state file are as the run found them.
C5_NoOpWhenDecisionMatches ==
    \A p \in SeqProcs :
        (pc[p] \in {"fc_connect", "fc_write", "fc_ret", "rs_connect", "rs_write",
                    "rs_ret", "publish", "done"}
         /\ should_charge[p] = runlog[p].loaded) =>
            /\ pc[p] \in {"publish", "done"}
            /\ runlog[p].writes = << >>
            /\ runlog[p].saves = 0
            /\ regs = runlog[p].regsAtStart
            /\ stateFile = runlog[p].fileAtStart

C5_Witness ==
    /\ Done(1) /\ should_charge[1] /\ runlog[1].loaded
    /\ charging_power[1] = lastForcedPower
    /\ regs[REG_MODE] = 2

\* C6: a run that finds the state charging and decides to charge at a rate
\* that differs materially from the rate applied before writes the
\* charge-power register again.
C6_RateChangeReapplied ==
    \A p \in SeqProcs :
        (/\ Done(p) /\ runlog[p].loaded /\ should_charge[p]
         /\ lastForcedPower >= 0
         /\ Abs(charging_power[p] - lastForcedPower) >= MaterialDelta) =>
            OkWrites(p, REG_POWER) # {}

\* C7: after a successful reset that follows a successful forced charge, at
\* any rate, the four registers hold mode 0, power 10000, SOC floor 500 and
\* discharge limit 10000.
C7_ForceThenResetDefaults ==
    \A p \in SeqProcs :
        (pc[p] \in {"rs_ret", "done"} /\ runlog[p].transition = "reset" /\ ret[p]) =>
            FactoryDefaults

C7_Witness ==
    /\ Done(1) /\ runlog[1].transition = "reset" /\ ret[1]
    /\ lastForcedPower > 0
    /\ runlog[1].regsAtStart[REG_MODE] = 2
    /\ runlog[1].regsAtStart[REG_SOC] = 9900
    /\ runlog[1].regsAtStart[REG_DISCHARGE] # 10000

\* C8: the rate the forced charge encodes into register 40355 is the requested
\* rate clamped to [0, max_rate]; a request above max_rate encodes max_rate.
ClampedRate(rate, max_rate) ==
    IF rate > max_rate THEN max_rate ELSE IF rate < 0 THEN 0 ELSE rate
C8_ClampToMaxRate ==
    \A p \in SeqProcs :
        \A i \in 1..Len(runlog[p].writes) :
            (ForceTried(p) /\ runlog[p].writes[i].reg = REG_POWER) =>
                LET c == ClampedRate(charge_rate[p], MAX_BATTERY_CHARGE_RATE)
                IN  /\ runlog[p].writes[i].val =
                          (IF c < 10 THEN 55536 ELSE 65536 - (c \div 10))
                    /\ (charge_rate[p] > MAX_BATTERY_CHARGE_RATE =>
                          runlog[p].writes[i].val =
                              65536 - (MAX_BATTERY_CHARGE_RATE \div 10))

C8_Witness ==
    /\ Done(1) /\ ret[1] /\ runlog[1].transition = "force"
    /\ charge_rate[1] > MAX_BATTERY_CHARGE_RATE
    /\ MAX_BATTERY_CHARGE_RATE = 5000
    /\ regs[REG_POWER] = 65036

C10_LoadDefaultsToFalse ==
    \A p \in SeqProcs :
        /\ runlog[p].crashAt # "load"
        /\ (pc[p] = "decide" /\ (runlog[p].fileAtStart.kind # "record"
                                 \/ runlog[p].fileAtStart.cc = "missing"
                                 \/ runlog[p].loadIoError) =>
                currently_charging[p] = FALSE)

RateDone == fn.op = "rate" /\ fn.phase = "done"
RateValid == ParseOk(fn.window[1]) /\ ParseOk(fn.window[2])
RateStart == fn.window[1][1] * 60 + fn.window[1][2]
RateEnd == fn.window[2][1] * 60 + fn.window[2][2]
SpansMidnight == RateValid /\ RateEnd < RateStart

\* C11: in the after-midnight part of a window that spans midnight the usable
\* interval is [now, end]; deficit 3 kWh, 23:00 to 06:00, at 05:45 gives 12000 W.
C11_AfterMidnightUsesNowToEnd ==
    (RateDone /\ SpansMidnight /\ fn.now <= RateEnd) =>
        /\ fn.usable = RateEnd - fn.now
        /\ (fn.deficit = 3000 /\ fn.window = << <<23, 0>>, <<6, 0>> >> /\ fn.now = 345
                => fn.rate = 12000)

\* C12: with a deficit > 0 and the current time equal to the window end
\* calculate_charge_rate returns 0, for same-day and midnight-spanning windows.
C12_ZeroAtWindowEnd ==
    (RateDone /\ RateValid /\ fn.deficit > 0 /\ fn.now = RateEnd) => fn.rate = 0

\* C13: a window with end < start always has its end on the day after its
\* start, 24 h - (start - end) long, at every current time; it is never
\* inverted or empty.
C13_EndBeforeStartSpansMidnight ==
    (RateDone /\ SpansMidnight) =>
        /\ fn.rolled[2] - fn.rolled[1] = 1440 - (RateStart - RateEnd)
        /\ fn.rolled[1] < fn.rolled[2]
        /\ fn.usable > 0
        /\ fn.usable <= fn.rolled[2] - fn.rolled[1]
        /\ (fn.deficit >= 50 => fn.rate > 0)

C13_Witness ==
    /\ RateDone /\ fn.window = << <<23, 0>>, <<6, 0>> >> /\ fn.now = 345
    /\ fn.deficit = 3000 /\ fn.rolled = << 1380, 1800 >> /\ fn.rate = 500

\* C14: over a usable interval of H hours the deficit is divided by H - 1 when
\* H - 1 >= 1, by H when H - 1 < 1 and H > 0, and the result is 0 when H <= 0;
\* the rate is the rounded quotient, at least 0; 3 kWh, 23:00 to 06:00, at
\* 23:30 gives 545 W.
C14_MarginPolicy ==
    (RateDone /\ RateValid) =>
        /\ fn.rate =
              (IF fn.usable <= 0 THEN 0
               ELSE LET h == IF fn.usable - 60 >= 60 THEN fn.usable - 60
                             ELSE fn.usable
                        q == RoundHalfEven(fn.deficit * 60, h)
                    IN  IF q < 0 THEN 0 ELSE q)
        /\ (fn.deficit = 3000 /\ fn.window = << <<23, 0>>, <<6, 0>> >> /\ fn.now = 1410
                => fn.rate = 545)

C14_Witness ==
    /\ RateDone /\ fn.deficit = 3000 /\ fn.window = << <<23, 0>>, <<6, 0>> >>
    /\ fn.now = 1410 /\ fn.usable = 390 /\ fn.rate = 545

\* the flag a run that meets no I/O error would load from the file
PersistedCharging(file) == load_charging_state(file, FALSE).value
\* the run of p has been started and has not been cleaned up
Started(p) == pc[p] # "idle"

\* C15: with fewer than 2 usable history rows the forecast fails with
\* InsufficientHistory: the run stops there, no decision is made, no register
\* is written and the persisted state is unchanged.
C15_UnderTwoRowsStopsRun ==
    \A p \in Procs :
        (Started(p) /\ env[p].rows < 2) =>
            /\ pc[p] = "crashed" /\ runlog[p].crashAt = "forecast"
            /\ runlog[p].writes = << >>
            /\ runlog[p].saves = 0
            /\ stateFile = runlog[p].fileAtStart

\* C16: with efficiency <= 0 every run stops at the efficiency check, before
\* any register write and any change of the persisted state, and never
\* divides by the efficiency, whatever the fetches and the persisted state.
C16_BadEfficiencyStopsRun ==
    \A p \in Procs :
        (Started(p) /\ env[p].efficiency <= 0) =>
            /\ ~runlog[p].divided
            /\ runlog[p].crashAt # "forecast" =>
                 /\ pc[p] = "crashed" /\ runlog[p].crashAt = "efficiency"
                 /\ runlog[p].writes = << >>
                 /\ runlog[p].saves = 0
                 /\ stateFile = runlog[p].fileAtStart

\* C17: a run that ends abnormally, wherever it does, leaves the persisted
\* ChargingState equal to its value when the run started.
C17_AbnormalEndKeepsState ==
    \A p \in Procs :
        pc[p] = "crashed" =>
            PersistedCharging(stateFile) = PersistedCharging(runlog[p].fileAtStart)

AggDone == fn.op = "agg" /\ fn.phase = "done"
\* the dates on which the entity has a reading
ReadingDates(entity) ==
    {DateOf(r.Time) : r \in {q \in fn.readings : q.Entity = entity}}
\* the dates of the daily totals of a sensor: those of its readings when its
\* group is integrated as power
TotalDates(entity) ==
    IF fn.sensor_type[entity] = "power" THEN ReadingDates(entity) ELSE {}
\* the dates of the SOC extrema: those of the readings of the SOC groups
ExtremaDates ==
    UNION {ReadingDates(e) : e \in {x \in Entities : fn.sensor_type[x] = "soc"}}
RowDates == {fn.forecast_data[i].Date : i \in 1..Len(fn.forecast_data)}

\* C18: the forecast rows are exactly the dates present in all three of the
\* charge-rate daily totals, the load daily totals and the SOC extrema: a date
\* missing from one series has no row, a date in all three has exactly one.
C18_RowsAreDatesInAllThree ==
    AggDone =>
        /\ \A d \in AllDates :
             d \in RowDates <=>
                 /\ d \in TotalDates(HA_BATTERY_CHARGE_RATE_SENSOR)
                 /\ d \in TotalDates(HA_POWER_USAGE_SENSOR)
                 /\ d \in ExtremaDates
        /\ \A i, j \in 1..Len(fn.forecast_data) :
             fn.forecast_data[i].Date = fn.forecast_data[j].Date => i = j

C18_Witness ==
    /\ AggDone /\ Len(fn.forecast_data) = 1 /\ fn.forecast_data[1].Date = 0
    /\ 1 \in TotalDates(HA_BATTERY_CHARGE_RATE_SENSOR)
    /\ 1 \notin TotalDates(HA_POWER_USAGE_SENSOR)

\* the energy of the pairs of consecutive rows whose second row is on the date
RECURSIVE PairEnergy(_, _, _)
PairEnergy(group, date, n) ==
    IF n <= 1 THEN 0
    ELSE PairEnergy(group, date, n - 1)
         + (IF DateOf(group[n].Time) = date
            THEN (group[n].State * (group[n].Time - group[n - 1].Time)) \div 3600
            ELSE 0)
\* the rows up to the last one taken on the date or before
UpToDate(group, date) ==
    SelectSeq(group, LAMBDA r : DateOf(r.Time) <= date)
\* the entities whose group is integrated as power
PowerGroups == {e \in Entities : fn.sensor_type[e] = "power"}

\* C19: the energy of a date is the sum over the pairs of consecutive readings
\* of the entity whose second reading is on that date, 0 for equal timestamps;
\* the gap after the last reading of the date adds nothing to it.
C19_EnergyFromPairsOnly ==
    AggDone =>
        \A e \in PowerGroups : \A d \in AllDates :
            LET group == fn.sorted[e]
            IN  /\ fn.results[e].sum[d] = PairEnergy(group, d, Len(group))
                /\ fn.results[e].sum[d]
                     = PairEnergy(UpToDate(group, d), d, Len(UpToDate(group, d)))
                /\ \A i \in 2..Len(group) :
                     group[i].Time = group[i - 1].Time => fn.energy[e][i] = 0

C19_Witness ==
    /\ AggDone /\ HA_POWER_USAGE_SENSOR \in PowerGroups
    /\ LET group == fn.sorted[HA_POWER_USAGE_SENSOR]
       IN  /\ Len(group) = 3
           /\ group[1].Time = 72000 /\ group[2].Time = 82800 /\ group[3].Time = 90000
           /\ group[2].State = 100 /\ group[3].State = 200
           /\ fn.results[HA_POWER_USAGE_SENSOR].sum[0] = 300
           /\ fn.results[HA_POWER_USAGE_SENSOR].sum[1] = 400

\* row i is the first row of its calendar date
FirstOfDate(group, i) ==
    i = 1 \/ DateOf(group[i].Time) # DateOf(group[i - 1].Time)

\* C20 as stated: the first reading of every calendar date contributes zero
\* energy to that date's total, for every power entity.
C20_FirstOfDateIsZero ==
    AggDone =>
        \A e \in PowerGroups : \A i \in 1..Len(fn.sorted[e]) :
            FirstOfDate(fn.sorted[e], i) => fn.energy[e][i] = 0

\* C20 amended: the first reading of an entity over the whole range contributes
\* zero; the first reading of a later date contributes its power times the
\* time since the entity's previous reading, to its own date.
C20_FirstOfRangeIsZero ==
    AggDone =>
        \A e \in PowerGroups : \A i \in 1..Len(fn.sorted[e]) :
            LET group == fn.sorted[e]
            IN  /\ i = 1 => fn.energy[e][i] = 0
                /\ (i > 1 /\ FirstOfDate(group, i)) =>
                     /\ fn.energy[e][i]
                          = (group[i].State * (group[i].Time - group[i - 1].Time)) \div 3600
                     /\ fn.energy[e][i] > 0
                     /\ fn.results[e].sum[DateOf(group[i].Time)] >= fn.energy[e][i]

C20_Witness ==
    /\ AggDone /\ HA_BATTERY_CHARGE_RATE_SENSOR \in PowerGroups
    /\ LET group == fn.sorted[HA_BATTERY_CHARGE_RATE_SENSOR]
       IN  /\ Len(group) = 2
           /\ group[1].Time = 82800 /\ group[2].Time = 90000
           /\ group[2].State = 100
           /\ fn.energy[HA_BATTERY_CHARGE_RATE_SENSOR] = << 0, 200 >>
           /\ fn.results[HA_BATTERY_CHARGE_RATE_SENSOR].sum[1] = 200

AggRan == fn.op = "agg" /\ fn.phase # "input"
\* the readings whose unit tells their kind
SocReadings == {r \in fn.readings : r.Unit = "%"}
Recognised(r) == r.Unit \in {"W", "%"}

\* C21: the current SOC of the deficit calculation is the value of a SOC
\* reading with the maximum timestamp over the whole range, whatever its date
\* and whatever the order in which the entities are processed.
C21_CurrentSocIsLatestReading ==
    (AggDone /\ SocReadings # {}) =>
        \E r \in SocReadings :
            /\ \A q \in SocReadings : q.Time <= r.Time
            /\ fn.current_soc_percent = r.State

\* C22: a reading whose unit is not recognised, or that has no unit, is
\* ignored: the aggregation does not fail, the reading is in no daily energy
\* total and in no SOC extremum, whatever the other readings of its entity.
C22_UnrecognisedReadingIgnored ==
    (AggRan /\ fn.readings # {}) =>
        /\ fn.phase = "done"
        /\ \A e \in PowerGroups :
             LET kept == SelectSeq(fn.sorted[e], Recognised)
             IN  /\ fn.results[e].dates = {DateOf(kept[i].Time) : i \in 1..Len(kept)}
                 /\ \A d \in AllDates :
                      fn.results[e].sum[d] = PairEnergy(kept, d, Len(kept))
        /\ \A e \in Entities : \A d \in AllDates :
             (fn.sensor_type[e] = "soc" /\ d \in ReadingDates(e)) =>
                 \E r \in fn.readings :
                     /\ r.Entity = e /\ DateOf(r.Time) = d /\ Recognised(r)
                     /\ r.State <= fn.soc_stats.min[d]

SolarRan == fn.op = "solar" /\ fn.phase # "input"
\* the cache entry the call consults is older than the time to live
CacheStale ==
    fn.cache.kind = "record" /\ fn.cache.ts = "iso" /\ fn.cache.age > fn.cache_duration
\* the cache entry the call consults is not the expected record
CacheInvalid ==
    \/ fn.cache.kind \in {"garbage", "nonrecord"}
    \/ fn.cache.kind = "record"
         /\ (fn.cache.ts # "iso" \/ fn.cache.fc # "ok")

\* C23: a cache entry older than the TTL or structurally invalid is never
\* returned or used as the forecast: the forecast is refetched and the run
\* does not fail.
C23_BadCacheIsRefetched ==
    (SolarRan /\ fn.use_cache /\ (CacheStale \/ CacheInvalid)) =>
        /\ fn.phase # "crashed"
        /\ fn.result.fetched
        /\ fn.result.kind \in {"error", "forecast"}

\* the run of p got the error value from get_solar_forecast_advanced
SolarFailed(p) ==
    Started(p) /\ env[p].solar_error /\ runlog[p].crashAt # "forecast"

\* C24: when the weather source fails the run gets an explicit error value,
\* checks it before reading any forecast field, reads none of them (the
\* deficit stays 0, undivided) and starts no forced-charge transition.
C24_SolarErrorNeverForces ==
    \A p \in Procs :
        SolarFailed(p) =>
            /\ ~runlog[p].divided
            /\ total_deficit_wh[p] = 0
            /\ ~should_charge[p]
            /\ ~ForceTried(p)
            /\ \A i \in 1..Len(runlog[p].writes) :
                 ~(runlog[p].writes[i].reg = REG_MODE
                   /\ runlog[p].writes[i].val = MODE_FORCE)
            /\ pc[p] \notin {"fc_connect", "fc_write", "fc_ret", "done"}

C24_Witness ==
    \E p \in Procs :
        /\ SolarFailed(p) /\ env[p].efficiency > 0
        /\ runlog[p].loads = 1 /\ ~runlog[p].loaded
        /\ runlog[p].crashAt = "publish"
        /\ current_time[p] = 1410 /\ CHEAP_POWER_WINDOW = << <<23, 0>>, <<6, 0>> >>
        /\ runlog[p].transition = "none"

CallOver == fn.op = "call" /\ fn.step \in {"returned", "raised"}

\* C25: every call of force_charge_inverter, reset_inverter_settings and
\* read_battery_status has released the connection it opened when it returns
\* or raises: on success, failed connect, register error and exception.
C25_ConnectionReleased ==
    /\ CallOver => fn.conn # "open"
    /\ (CallOver /\ Len(fn.log) > 0) => fn.conn = "closed"
    /\ (fn.op = "call" /\ fn.conn = "open") => fn.step \in {"exchange", "finally"}

C25_Witness ==
    /\ fn.op = "call" /\ fn.func = "force_charge_inverter" /\ fn.step = "raised"
    /\ fn.log = << "ok", "raise" >> /\ fn.conn = "closed"
    /\ fn.regs[REG_MODE] = MODE_FORCE

\* the run of p has been through the MQTT section
MqttTried(p) == runlog[p].mqtt # "none"
\* the status of the run of p went out
Published(p) == runlog[p].mqtt = "ok" /\ pc[p] = "done"
\* the step is the MQTT section of the run of p
PublishStep(p) == pc[p] = "publish" /\ pc'[p] # "publish"

\* C26: status is published only after the outcome of the run's transition
\* has been saved, and a failed MQTT connect or publish neither aborts the run
\* nor changes the persisted state or an inverter register.
C26_PublishAfterPersistNoEffect ==
    /\ [](\A p \in Procs :
            MqttTried(p) =>
                /\ pc[p] \in {"done", "crashed"}
                /\ (ForceTried(p) \/ ResetTried(p)) => runlog[p].saves = 1
                /\ (runlog[p].mqtt # "ok" /\ ~env[p].solar_error) => pc[p] = "done")
    /\ [][\A p \in Procs :
            PublishStep(p) =>
                /\ stateFile' = stateFile /\ regs' = regs
                /\ runlog'[p].saves = runlog[p].saves
                /\ runlog'[p].writes = runlog[p].writes]_vars

C26_Witness ==
    \E p \in Procs :
        /\ pc[p] = "done" /\ runlog[p].mqtt = "connect_failed"
        /\ ForceTried(p) /\ runlog[p].savedArg = "true"
        /\ stateFile = FileRecord("true") /\ regs[REG_MODE] = MODE_FORCE

\* the call of force_charge_inverter has written the charge-power register
PowerWritten ==
    /\ fn.op = "call" /\ fn.func = "force_charge_inverter"
    /\ Len(fn.log) >= 2 /\ fn.log[2] = "ok"

\* C27: for the clamped rate r of a forced charge, register 40355 receives
\* the minimum-charge sentinel 55536, never 0, when r < 10 W (0 included), and
\* 65536 - floor(r / 10) otherwise.
C27_PowerRegisterEncoding ==
    PowerWritten =>
        LET r == ClampedRate(fn.power, MAX_BATTERY_CHARGE_RATE)
        IN  /\ r < 10 => fn.regs[REG_POWER] = 55536
            /\ r >= 10 => fn.regs[REG_POWER] = 65536 - (r \div 10)
            /\ fn.regs[REG_POWER] # 0

C27_Witness ==
    /\ PowerWritten /\ fn.power = 0 /\ fn.step = "returned"
    /\ fn.log = << "ok", "ok", "ok" >> /\ fn.regs[REG_POWER] = 55536

\* the wall-clock time lies in the window, which spans midnight when its end
\* is before its start
InWindow(now, window) ==
    LET start0 == window[1][1] * 60 + window[1][2]
        end0 == window[2][1] * 60 + window[2][2]
        t == now % 1440
    IN  /\ ParseOk(window[1]) /\ ParseOk(window[2])
        /\ IF end0 < start0 THEN t >= start0 \/ t <= end0
           ELSE start0 <= t /\ t <= end0

\* C28: a run enters the forced-charge transition only with a deficit > 0, a
\* rate > 0, the current time inside the charging window and a loaded state of
\* not charging; a deficit <= 0 or a time outside the window never starts one.
C28_ForceOnlyWhenDue ==
    \A p \in Procs :
        (ForceTried(p) \/ pc[p] \in {"fc_connect", "fc_write", "fc_ret"}) =>
            /\ total_deficit_wh[p] > 0
            /\ charge_rate[p] > 0
            /\ InWindow(current_time[p], CHEAP_POWER_WINDOW)
            /\ runlog[p].loads = 1 /\ ~runlog[p].loaded
            /\ should_charge[p]

C28_Witness ==
    \E p \in Procs :
        /\ ForceTried(p) /\ pc[p] = "done" /\ current_time[p] = 1410
        /\ total_deficit_wh[p] = 3000 /\ charge_rate[p] = 545
        /\ CHEAP_POWER_WINDOW = << <<23, 0>>, <<6, 0>> >>

\* the run of p has made its decision
Decided(p) ==
    pc[p] \in {"fc_connect", "fc_write", "fc_ret", "rs_connect", "rs_write",
               "rs_ret", "publish", "done"}
\* an earlier run started the forced charge that the run of p finds persisted
FoundCharging(p) ==
    runlog[p].fileAtStart = FileRecord("true") /\ runlog[p].loaded
WindowSpansMidnight ==
    /\ ParseOk(CHEAP_POWER_WINDOW[1]) /\ ParseOk(CHEAP_POWER_WINDOW[2])
    /\ ParseHHMM(CHEAP_POWER_WINDOW[2]) < ParseHHMM(CHEAP_POWER_WINDOW[1])

\* C29: after a run has started forced charging in a window that spans
\* midnight, every later run inside that window with a deficit > 0 and a
\* rate > 0 decides should_charge = true and does not reset the inverter, the
\* first run after midnight included.
C29_NoResetBeforeWindowEnd ==
    \A p \in Procs :
        (/\ Decided(p) /\ FoundCharging(p) /\ WindowSpansMidnight
         /\ InWindow(current_time[p], CHEAP_POWER_WINDOW)
         /\ total_deficit_wh[p] > 0 /\ charge_rate[p] > 0) =>
            /\ should_charge[p]
            /\ ~ResetTried(p)
            /\ pc[p] \notin {"rs_connect", "rs_write", "rs_ret"}

\* the last transition of the deployment was a reset that failed and left the
\* inverter in forced charge
ResetStillDue ==
    lastSave.after = "reset_failed" /\ regs[REG_MODE] = MODE_FORCE

\* C30: after a failed ForcedCharge -> Automatic transition a later run that
\* wants no charge retries the reset, so that the inverter does not stay in
\* forced charge.
C30_FailedResetRetried ==
    \A p \in Procs :
        (Decided(p) /\ ResetStillDue /\ ~should_charge[p]) =>
            \/ ResetTried(p)
            \/ pc[p] \in {"rs_connect", "rs_write", "rs_ret"}

\* the state file holds what the last call of save_charging_state meant to
\* write (no save has failed since)
StateFileAsSaved == lastSave.arg = "none" \/ lastSave.ok

\* C31: the inverter starts in Automatic mode and only the script writes to
\* it; at the end of every run the persisted currently_charging is true if and
\* only if the mode register 40348 holds the force-charge value 2.
C31_PersistedIffForceMode ==
    \A p \in SeqProcs :
        (Done(p) /\ StateFileAsSaved) =>
            ((stateFile = FileRecord("true")) <=> (regs[REG_MODE] = MODE_FORCE))

\* the charging power a value of register 40355 denotes, read through the
\* inverse of the encoding: W = (65536 - value) * 10
DecodedPower(value) == (POWER_BASE - value) * 10

\* C32: for every requested rate (0 and rates below 10 W included) and every
\* configured maximum, the value written to register 40355 denotes, through
\* the inverse of the encoding, no charging power above the maximum.
C32_DecodedPowerWithinMax ==
    PowerWritten => DecodedPower(fn.regs[REG_POWER]) <= MAX_BATTERY_CHARGE_RATE

\* main returned after finding nothing to do: it called neither
\* force_charge_inverter nor reset_inverter_settings
TestFoundNothingToDo ==
    /\ fn.op = "test" /\ fn.step = "returned"
    /\ fn.mode # NoStatus /\ ~fn.called /\ fn.action # "status"

\* C33: start and stop classify every readable status consistently: a status
\* on which start reports "already charging" is none on which stop reports
\* "already in Automatic Mode", so one of the two actions issues writes.
C33_StartStopClassifyConsistently ==
    TestFoundNothingToDo =>
        IF fn.action = "start" THEN ~AlreadyAutomatic(fn.mode, fn.rate)
        ELSE ~AlreadyForceCharge(fn.mode)

DiscReturned == fn.op = "disc" /\ fn.step = "returned"

WindowUnparsed ==
    ~(ParseOk(CHEAP_POWER_WINDOW[1]) /\ ParseOk(CHEAP_POWER_WINDOW[2]))

\* C35: when a time of the charging window does not parse as HH:MM the rate
\* is 0, the run decides should_charge = false and starts no forced charge,
\* whatever the deficit, the time of day and the start_time / end_time left
\* over from the history query.
C35_UnparsedWindowNeverForces ==
    \A p \in Procs :
        (Decided(p) /\ WindowUnparsed) =>
            /\ charge_rate[p] = 0
            /\ ~should_charge[p]
            /\ ~ForceTried(p)
            /\ pc[p] \notin {"fc_connect", "fc_write", "fc_ret"}

C35_Witness ==
    \E p \in Procs :
        /\ Done(p) /\ WindowUnparsed /\ ParseOk(CHEAP_POWER_WINDOW[1])
        /\ total_deficit_wh[p] > 0 /\ current_time[p] = 1410
        /\ runlog[p].loads = 1 /\ ~should_charge[p]

====
